---- MODULE Spec2Model ----
(***************************************************************************)
(* A model of the relay/fan-out engine of simple_relay.py (class           *)
(* SimpleRelay): the retrying senders, the single-message relay with its   *)
(* delivery-dedup cache, and the album aggregator with its debounce tasks  *)
(* and cross-album ordering gate.                                          *)
(*                                                                         *)
(* The program runs on one asyncio event loop: a coroutine runs without    *)
(* interruption from one await to the next, so every action below is the   *)
(* code between two awaits of one coroutine.  The specifications share    *)
(* the variables:                                                          *)
(*   SpecSend   one call of _send_one / _send_with_backoff                 *)
(*   Spec       handle_forward for single messages (updates are handled    *)
(*              one at a time: main() builds the Application without       *)
(*              concurrent_updates)                                        *)
(*   SpecFanout one single message relayed to three destinations           *)
(*   SpecRetry  the same, with the retry loop followed beyond MaxCalls     *)
(*   SpecAlbum  _buffer_media_group and the _flush_media_group tasks       *)
(*   SpecMixed  a single message and an album part at the same time        *)
(*   SpecCap    a single message and an album to nine destinations         *)
(*   SpecGate   a single message while albums wait at the ordering gate    *)
(*   SpecDedup  dedup_channels of channel_utils.py                         *)
(***************************************************************************)
EXTENDS Integers, Sequences, FiniteSets, TLC

VARIABLES
    now,                \* time.time(), in seconds
    nticks,             \* number of clock steps taken (bounds the clock)
    registry,           \* the content of channels.json: load_channel_entries()
    sent_cache,         \* self.sent_cache: (chat id, source key) -> timestamp
    bo_pc,              \* _send_one: "idle", "call", "sleep", "done"
    bo_attempt,         \* _send_with_backoff: attempt
    bo_calls,           \* number of invocations of func(**kwargs)
    bo_sleeps,          \* the durations passed to asyncio.sleep, in order
    bo_outcomes,        \* the failures func raised, in order
    bo_result,          \* what _send_one returned: "none", "True", "False"
    r_phase,            \* handle_forward: "idle", "init", "gather", "finalize"
    oplog,              \* the handle_forward calls so far, the last one current
    progress_tokens,    \* self.progress_tokens: chat id -> session token
    messages,           \* the progress messages posted in the chat, as shown
    media_group_buffer, \* self.media_group_buffer: album id -> parts
    media_group_tasks,  \* self.media_group_tasks: album id -> flush task
    group_order,        \* self.group_order: album id -> order token
    group_seq_counter,  \* self.group_seq_counter
    group_next_seq,     \* self.group_next_seq
    processed_groups,   \* self.processed_groups: album source key -> timestamp
    flush,              \* the _flush_media_group tasks, in order of creation
    arrived,            \* the album parts received so far, in order of arrival
    dd_pc,              \* dedup_channels: "idle", "new", "once", "twice"
    dd_channels,        \* dedup_channels: the argument channels
    dd_result           \* dedup_channels: what it returned

clockVars == <<now, nticks>>
sendVars == <<bo_pc, bo_attempt, bo_calls, bo_sleeps, bo_outcomes, bo_result>>
relayVars == <<r_phase, oplog>>
albumVars ==
    <<media_group_buffer, media_group_tasks, group_order, group_seq_counter,
      group_next_seq, processed_groups, flush, arrived>>
progVars == <<progress_tokens, messages>>
dedupVars == <<dd_pc, dd_channels, dd_result>>
vars ==
    <<clockVars, registry, sent_cache, sendVars, relayVars, albumVars, progVars,
      dedupVars>>

\* what the actions of one component leave alone
notSend ==
    <<clockVars, registry, sent_cache, relayVars, albumVars, progVars, dedupVars>>
relayEnv == <<nticks, registry, sendVars, albumVars, dedupVars>>
albumEnv == <<nticks, registry, sendVars, relayVars, dedupVars>>
notRelay == <<relayEnv, progVars>>
notAlbum == <<albumEnv, progVars>>

----------------------------------------------------------------------------
(* Program constants *)

sent_ttl == 21600
group_ttl == 7200
max_concurrency == 8
max_retries == 3

(* Bounds of the model *)

\* invocations of the platform call one _send_with_backoff may make in the
\* model (the code's loop has no bound on rate-limit signals)
MaxCalls == 4

\* the retry_after values a rate-limit signal carries
RetryAfterVals == {1, 5}

----------------------------------------------------------------------------
(* The platform's answers to one call *)

Ok == [kind |-> "ok", w |-> 0]
Failures ==
    {[kind |-> "RetryAfter", w |-> w] : w \in RetryAfterVals}
    \cup {[kind |-> k, w |-> 0] : k \in {"TimedOut", "NetworkError", "Other"}}
Answers == {Ok} \cup Failures

\* the kinds of message _send_one can be handed; a sticker has neither
\* text, photo, video nor document
MsgKinds == {"text", "photo", "video", "document", "sticker"}
Sendable(kind) == kind \in {"text", "photo", "video", "document"}

----------------------------------------------------------------------------
(* _send_with_backoff, between two awaits *)

\* the except clauses: the value of attempt after failure r
AttemptAfterNoCount(attempt, r) == attempt
AttemptAfter(attempt, r) ==
    IF r.kind = "RetryAfter" THEN attempt ELSE attempt + 1

\* the except clauses: the duration slept after failure r, given the value
\* of attempt after the clause's increment
SleepForFixed(attempt, r) ==
    IF r.kind = "RetryAfter" THEN r.w + 1 ELSE 1
SleepFor(attempt, r) ==
    CASE r.kind = "RetryAfter" -> r.w + 1
      [] r.kind \in {"TimedOut", "NetworkError"} -> 1 * attempt
      [] OTHER -> 1

\* the loop condition
LoopAgain(attempt) == attempt < max_retries

\* _send_one is called: a message of a kind it cannot send returns False at
\* once, any other enters _send_with_backoff and invokes the platform call
SendOneCall(kind) ==
    /\ bo_pc = "idle"
    /\ IF Sendable(kind) /\ LoopAgain(0)
       THEN /\ bo_pc' = "call"
            /\ bo_calls' = bo_calls + 1
            /\ bo_result' = bo_result
       ELSE /\ bo_pc' = "done"
            /\ bo_calls' = bo_calls
            /\ bo_result' = "False"
    /\ bo_attempt' = 0
    /\ UNCHANGED <<bo_sleeps, bo_outcomes>>
    /\ UNCHANGED notSend

\* the platform call returns: _send_one returns True
FuncReturns ==
    /\ bo_pc = "call"
    /\ bo_pc' = "done"
    /\ bo_result' = "True"
    /\ UNCHANGED <<bo_attempt, bo_calls, bo_sleeps, bo_outcomes>>
    /\ UNCHANGED notSend

\* the platform call raises r: the matching except clause counts and sleeps
FuncRaises(r) ==
    /\ bo_pc = "call"
    /\ bo_pc' = "sleep"
    /\ bo_attempt' = AttemptAfter(bo_attempt, r)
    /\ bo_sleeps' = Append(bo_sleeps, SleepFor(bo_attempt', r))
    /\ bo_outcomes' = Append(bo_outcomes, r)
    /\ UNCHANGED <<bo_calls, bo_result>>
    /\ UNCHANGED notSend

\* the sleep ends: the loop calls again, or raises RuntimeError, which
\* _send_one turns into False
SleepReturns ==
    /\ bo_pc = "sleep"
    /\ IF LoopAgain(bo_attempt)
       THEN /\ bo_calls < MaxCalls
            /\ bo_pc' = "call"
            /\ bo_calls' = bo_calls + 1
            /\ bo_result' = bo_result
       ELSE /\ bo_pc' = "done"
            /\ bo_calls' = bo_calls
            /\ bo_result' = "False"
    /\ UNCHANGED <<bo_attempt, bo_sleeps, bo_outcomes>>
    /\ UNCHANGED notSend

\* SimpleRelay.__init__, and the clock
InitShared ==
    /\ now = 0
    /\ nticks = 0
    /\ sent_cache = <<>>
    /\ progress_tokens = <<>>
    /\ messages = <<>>

DedupIdle ==
    /\ dd_pc = "idle"
    /\ dd_channels = <<>>
    /\ dd_result = <<>>

SendIdle ==
    /\ bo_pc = "idle"
    /\ bo_attempt = 0
    /\ bo_calls = 0
    /\ bo_sleeps = <<>>
    /\ bo_outcomes = <<>>
    /\ bo_result = "none"

RelayIdle ==
    /\ r_phase = "idle"
    /\ oplog = <<>>

\* SimpleRelay.__init__: the album aggregator
AlbumIdle ==
    /\ media_group_buffer = <<>>
    /\ media_group_tasks = <<>>
    /\ group_order = <<>>
    /\ group_seq_counter = 0
    /\ group_next_seq = 0
    /\ processed_groups = <<>>
    /\ flush = <<>>
    /\ arrived = <<>>

InitSend ==
    /\ InitShared
    /\ registry = <<>>
    /\ SendIdle
    /\ RelayIdle
    /\ AlbumIdle
    /\ DedupIdle

NextSend ==
    \/ \E kind \in MsgKinds : SendOneCall(kind)
    \/ FuncReturns
    \/ \E r \in Failures : FuncRaises(r)
    \/ SleepReturns

SpecSend == InitSend /\ [][NextSend]_vars

----------------------------------------------------------------------------
(* Claims about the retrying sender, checked under SpecSend *)

AllOf(s, kinds) == \A k \in 1..Len(s) : s[k].kind \in kinds

\* C7: after a rate-limit signal with wait w on a single-message send the
\* sender sleeps at least w + 1 and retries exactly once more; if the retry
\* fails again it gives up and reports failure, so there are at most two
\* invocations of the platform call.
C7_RateLimitRetriesOnce ==
    (Len(bo_outcomes) >= 1 /\ bo_outcomes[1].kind = "RetryAfter") =>
        /\ bo_sleeps[1] >= bo_outcomes[1].w + 1
        /\ bo_calls <= 2
        /\ Len(bo_outcomes) >= 2 => (bo_pc = "done" /\ bo_result = "False")

\* C8: a single-message send that fails only with timeout/network errors
\* invokes the platform call at most 3 times, sleeps k units after the k-th
\* failure, and is reported as failed once the 3 attempts are used up.
C8_TransientRetriesBounded ==
    AllOf(bo_outcomes, {"TimedOut", "NetworkError"}) =>
        /\ bo_calls <= 3
        /\ Len(bo_outcomes) <= 3
        /\ \A k \in 1..Len(bo_sleeps) : bo_sleeps[k] = k
        /\ (Len(bo_outcomes) = 3 /\ bo_pc # "sleep") =>
               (bo_pc = "done" /\ bo_result = "False")
        /\ (bo_result = "False" /\ bo_calls > 0) => Len(bo_outcomes) = 3

C8_Witness ==
    /\ Len(bo_outcomes) = 3
    /\ AllOf(bo_outcomes, {"TimedOut", "NetworkError"})
    /\ bo_calls = 3
    /\ bo_sleeps = <<1, 2, 3>>
    /\ bo_result = "False"

\* C9 as stated: a failure that is neither a rate-limit signal nor a
\* timeout/network error is reported at once: one invocation, no sleep, no
\* second attempt.
C9_OtherFailureNotRetried ==
    (Len(bo_outcomes) >= 1 /\ bo_outcomes[1].kind = "Other") =>
        /\ bo_calls = 1
        /\ bo_sleeps = <<>>
        /\ bo_pc = "done"
        /\ bo_result = "False"

\* C9 as amended: a failure that is neither a rate-limit signal nor a
\* timeout/network error counts towards the cap of 3 like a transient one
\* and is followed by a fixed sleep of 1 unit; a send that fails only this
\* way invokes the platform call at most 3 times and is then reported failed.
C9_OtherFailureRetriedToCap ==
    AllOf(bo_outcomes, {"Other"}) =>
        /\ bo_calls <= 3
        /\ Len(bo_outcomes) <= 3
        /\ \A k \in 1..Len(bo_sleeps) : bo_sleeps[k] = 1
        /\ (Len(bo_outcomes) = 3 /\ bo_pc # "sleep") =>
               (bo_pc = "done" /\ bo_result = "False")
        /\ (bo_result = "False" /\ bo_calls > 0) => Len(bo_outcomes) = 3

C9_Witness ==
    /\ Len(bo_outcomes) = 3
    /\ AllOf(bo_outcomes, {"Other"})
    /\ bo_calls = 3
    /\ bo_sleeps = <<1, 1, 1>>
    /\ bo_result = "False"

----------------------------------------------------------------------------
(* The destination registry and the dedup cache *)

\* Chat ids are written as their decimal numerals; "None" is Python's None.
ChatIds == {"-1001", "-1002"}

\* the messages of the model: a photo forwarded from message 1 of channel 7,
\* a photo with the caption "hello" that is no forward, and a sticker that
\* is no forward; 0 is None and "" is no text or caption
Units ==
    { [forward_from_chat |-> 7, forward_from_message_id |-> 1, text |-> "",
       kind |-> "photo"],
      [forward_from_chat |-> 0, forward_from_message_id |-> 0, text |-> "hello",
       kind |-> "photo"],
      [forward_from_chat |-> 0, forward_from_message_id |-> 0, text |-> "",
       kind |-> "sticker"] }

\* hash(text) & 0xFFFFFFFF: a number that depends on the text alone
TextHash(text) == IF text = "hello" THEN 99 ELSE 7

\* a registry entry; token is what _resolve_chat_id is given when id is None
Entry(id, token) == [id |-> id, token |-> token]

\* the registries of the model: two channels; one chat id listed twice; two
\* legacy entries without id, a handle and a numeral, that name the same
\* chat; a handle and a token that is no numeral
Registries ==
    { <<Entry("-1001", "-1001"), Entry("-1002", "@b")>>,
      <<Entry("-1001", "-1001"), Entry("-1001", "@a")>>,
      <<Entry("None", "@a"), Entry("None", "-1001")>>,
      <<Entry("None", "@b"), Entry("None", "abc")>> }

\* bot.get_chat(handle).id, when the call succeeds
ChatOfHandle(token) == IF token = "@a" THEN "-1001" ELSE "-1002"

IsHandle(token) == token \in {"@a", "@b"}

\* int(token): defined on numerals, ValueError ("None" here) otherwise
IntOfToken(token) == IF token \in ChatIds THEN token ELSE "None"

\* _prune_cache: the entries of cache c that are kept at time t
PruneCacheNever(c, t) == c
PruneCacheGroupTTL(c, t) ==
    [k \in {x \in DOMAIN c : ~(t - c[x] > group_ttl)} |-> c[k]]
PruneCache(c, t) ==
    [k \in {x \in DOMAIN c : ~(t - c[x] > sent_ttl)} |-> c[k]]

\* self.sent_cache[key] = time.time()
CachePutEpoch(c, key, t) == (key :> 0) @@ c
CachePut(c, key, t) == (key :> t) @@ c

\* send_to_one's test "src_key and key in self.sent_cache"
ShouldSkipNever(c, src_key, key) == FALSE
ShouldSkip(c, src_key, key) == src_key # "" /\ key \in DOMAIN c

----------------------------------------------------------------------------
(* Progress sessions: _init_progress_message and _finalize_progress_message.
   A progress text is its list of destination lines, line i being Python's
   lines[i]; the header lines[0] never changes and is left out. An entry
   without a token has token "". *)

\* the chat the administrator talks to the bot in
AdminChat == 5

\* the name shown for an entry: name or username or token or str(id), for
\* entries that have neither name nor username
EntryName(e) == IF e.token # "" THEN e.token ELSE e.id

\* idx_key as _init_progress_message computes it for entry i
IdxKeyInit(e, i) ==
    IF e.id # "None" THEN e.id ELSE IF e.token # "" THEN e.token ELSE ToString(i)
\* idx_key as _finalize_progress_message computes it
IdxKeyFinal(e) == IF e.id # "None" THEN e.id ELSE e.token

MaxOf(S) == CHOOSE x \in S : \A y \in S : y <= x

\* progress["index"]: a later entry with the same idx_key replaces an earlier
BuildIndex(channels) ==
    [k \in {IdxKeyInit(channels[i], i) : i \in DOMAIN channels} |->
        MaxOf({i \in DOMAIN channels : IdxKeyInit(channels[i], i) = k})]
\* progress["index"].get(k); 0 stands for None
IndexGet(index, k) == IF k \in DOMAIN index THEN index[k] ELSE 0

\* progress["lines"] as _init_progress_message builds it
InitLines(channels) ==
    [i \in DOMAIN channels |-> [mark |-> "pending", name |-> EntryName(channels[i])]]

\* The status _finalize_progress_message gives entry e with result
\* (status, key), where key is (cid, src_key), or None when cid is "None":
\* a failed result counts as success when its key is in the cache, or, with
\* fallback_key, when it has no key and (int(id), src_key) is in the cache.
FinalStatusAlwaysOk(e, status, cid, src_key, cache, fallback_key) == TRUE
FinalStatus(e, status, cid, src_key, cache, fallback_key) ==
    \/ status = "True"
    \/ cid # "None" /\ <<cid, src_key>> \in DOMAIN cache
    \/ /\ fallback_key
       /\ cid = "None"
       /\ e.id # "None"
       /\ src_key # ""
       /\ <<e.id, src_key>> \in DOMAIN cache

\* progress["lines"] after the loop of _finalize_progress_message over
\* zip(entries, results): entry i rewrites line index[idx_key], if there is
\* one, so a line ends as its last writer left it
FinalLines(lines, index, channels, results, src_key, cache, fallback_key) ==
    [l \in DOMAIN lines |->
        LET writers == {i \in DOMAIN channels :
                           IndexGet(index, IdxKeyFinal(channels[i])) = l}
            i == MaxOf(writers)
        IN  IF writers = {} THEN lines[l]
            ELSE [mark |-> IF FinalStatus(channels[i], results[i].status,
                                          results[i].cid, src_key, cache,
                                          fallback_key)
                           THEN "ok" ELSE "fail",
                  name |-> EntryName(channels[i])]]

\* the progress dict of an operation that has not opened its session
NoProgress == [message |-> 0, lines |-> <<>>, index |-> <<>>, token |-> 0]

\* _init_progress_message after reply_text returned: the message posted is
\* the next one of the chat, and the token is the reading of time.time();
\* readings taken at different steps of the event loop differ, and the model
\* numbers them by the sessions opened so far
OpenProgress(channels) ==
    [message |-> Len(messages) + 1, lines |-> InitLines(channels),
     index |-> BuildIndex(channels), token |-> Len(messages) + 1]
OpenSession(channels) ==
    /\ messages' = Append(messages, InitLines(channels))
    /\ progress_tokens' = (AdminChat :> Len(messages) + 1) @@ progress_tokens

\* a test that never finds a session stale
StaleNever(progress) == FALSE

\* _finalize_progress_message's test for a session that was superseded
Stale(progress) ==
    ~(AdminChat \in DOMAIN progress_tokens
      /\ progress_tokens[AdminChat] = progress.token)

----------------------------------------------------------------------------
(* handle_forward for a message that is no album part *)

\* calls of handle_forward in one behaviour
MaxOps == 2
\* steps of the clock in one behaviour
MaxTicks == 2

\* one destination task (send_to_one) of a relay: where it is, the chat id
\* it resolved, _send_with_backoff's attempt and the number of platform
\* calls of the running _send_with_backoff, and, for the claims, whether
\* it made a platform call, the status it returned, and the times of its
\* cache lookup and of its cache record (-1: none)
NewTask ==
    [pc |-> "new", cid |-> "None", attempt |-> 0, calls |-> 0,
     called |-> FALSE, status |-> "none", chk |-> -1, sent |-> -1]

\* the task returns status: the locals of its _send_with_backoff are gone
Returned(t, status) ==
    [t EXCEPT !.pc = "done", !.status = status, !.attempt = 0, !.calls = 0]

Cur == Len(oplog)
CurTasks == oplog[Cur].tasks
SetTask(i, t) == oplog' = [oplog EXCEPT ![Cur].tasks[i] = t]

\* "async with sem" of an operation with n tasks inside: whether one more
\* may enter
SemAlwaysFree(n) == TRUE
SemFree(n) == n < max_concurrency

\* tasks that hold the operation's semaphore
InFlight(tasks) ==
    Cardinality({i \in DOMAIN tasks : tasks[i].pc \in {"resolve", "call", "sleep"}})

\* Tasks start in the order gather created them, each running to its first
\* await, before the event loop polls for I/O or timers: while a task can
\* start, no platform call returns, no sleep ends and no time passes.
Runnable ==
    /\ r_phase = "gather"
    /\ \E i \in DOMAIN CurTasks : CurTasks[i].pc = "new"
    /\ SemFree(InFlight(CurTasks))

\* a _flush_media_group task that has ended: it ran its finally clause, or
\* it was cancelled before it ran at all
Ended(f) == f.pc \in {"done", "dead"}

\* send_album_to_one tasks that hold the flush's semaphore
KidsInFlight(kids) ==
    Cardinality({i \in DOMAIN kids :
                    kids[i].pc \in {"resolve", "call1", "sleep", "call2"}})

\* The event loop runs what is ready, in the order it became ready, before
\* it polls for I/O and timers: a cancellation is delivered, a created task
\* runs to its first await, before any call returns, any sleep ends or any
\* time passes. The same holds for the flush tasks and their destination
\* tasks.
CancelPending == \E t \in DOMAIN flush : flush[t].cancel /\ ~Ended(flush[t])
ReadyWork ==
    \/ CancelPending
    \/ \E t \in DOMAIN flush : flush[t].pc = "unstarted"
    \/ \E t \in DOMAIN flush :
          /\ flush[t].pc = "gather"
          /\ \E i \in DOMAIN flush[t].kids : flush[t].kids[i].pc = "new"
          /\ SemFree(KidsInFlight(flush[t].kids))

\* an event loop on which a flush that polls the gate keeps everything
\* else from running
BusyWhileGated ==
    Runnable \/ ReadyWork \/ \E t \in DOMAIN flush : flush[t].pc = "gate"
Busy == Runnable \/ ReadyWork

\* the clock advances by d seconds
Tick(d) ==
    /\ nticks < MaxTicks
    /\ ~Busy
    /\ nticks' = nticks + 1
    /\ now' = now + d
    /\ UNCHANGED <<registry, sent_cache, sendVars, relayVars, albumVars, progVars,
                   dedupVars>>

\* _src_key of message m, which the admin chat received as its message
\* message_id
SrcKey(m, message_id) ==
    IF m.forward_from_chat # 0 /\ m.forward_from_message_id # 0
    THEN "src:" \o ToString(m.forward_from_chat) \o ":"
                \o ToString(m.forward_from_message_id)
    ELSE IF m.text # ""
    THEN "hash:" \o ToString(TextHash(m.text))
    ELSE "self:" \o ToString(AdminChat) \o ":" \o ToString(message_id)

\* handle_forward is called with a message that has no media_group_id: the
\* registry is loaded, the source key computed, and the progress message
\* posted (await reply_text); the message is the admin chat's next one
HandleForward(u) ==
    /\ r_phase = "idle"
    /\ Len(oplog) < MaxOps
    /\ registry # <<>>
    /\ oplog' = Append(oplog,
          [m |-> u, src_key |-> SrcKey(u, Len(oplog) + 1), kind |-> u.kind,
           channels |-> registry,
           progress |-> NoProgress,
           tasks |-> [i \in DOMAIN registry |-> NewTask]])
    /\ r_phase' = "init"
    /\ UNCHANGED <<now, sent_cache>>
    /\ UNCHANGED notRelay

\* reply_text returns: gather creates one send_to_one task per channel
InitProgressReturns ==
    /\ r_phase = "init"
    /\ r_phase' = "gather"
    /\ oplog' = [oplog EXCEPT ![Cur].progress = OpenProgress(oplog[Cur].channels)]
    /\ OpenSession(oplog[Cur].channels)
    /\ UNCHANGED <<now, sent_cache>>
    /\ UNCHANGED relayEnv

\* reply_text raises: the exception leaves handle_forward, nothing is sent
InitProgressRaises ==
    /\ r_phase = "init"
    /\ r_phase' = "idle"
    /\ UNCHANGED <<now, sent_cache, oplog>>
    /\ UNCHANGED notRelay

\* send_to_one from "key = (cid, src_key)" to its next await or its return:
\* prune, look the key up, and either return True or call _send_one, which
\* returns False for a message it cannot send and otherwise makes the first
\* platform call
CheckAndSend(i, cid) ==
    LET t == CurTasks[i]
        c == PruneCache(sent_cache, now)
        key == <<cid, oplog[Cur].src_key>>
    IN  /\ sent_cache' = c
        /\ IF ShouldSkip(c, oplog[Cur].src_key, key)
           THEN SetTask(i, Returned([t EXCEPT !.cid = cid, !.chk = now], "True"))
           ELSE IF Sendable(oplog[Cur].kind) /\ LoopAgain(0)
           THEN SetTask(i, [t EXCEPT !.pc = "call", !.cid = cid, !.chk = now,
                                     !.attempt = 0, !.calls = 1,
                                     !.called = TRUE])
           ELSE SetTask(i, Returned([t EXCEPT !.cid = cid, !.chk = now], "False"))

\* a send_to_one task starts: it takes the semaphore and finds its chat id,
\* from the entry, from int(token), or by awaiting get_chat
SendToOneStart(i) ==
    /\ r_phase = "gather"
    /\ i \in DOMAIN CurTasks
    /\ CurTasks[i].pc = "new"
    /\ \A j \in 1..(i - 1) : CurTasks[j].pc # "new"
    /\ SemFree(InFlight(CurTasks))
    /\ LET e == oplog[Cur].channels[i]
       IN  IF e.id # "None"
           THEN CheckAndSend(i, e.id)
           ELSE IF IsHandle(e.token)
           THEN /\ SetTask(i, [CurTasks[i] EXCEPT !.pc = "resolve"])
                /\ UNCHANGED sent_cache
           ELSE IF IntOfToken(e.token) # "None"
           THEN CheckAndSend(i, IntOfToken(e.token))
           ELSE /\ SetTask(i, Returned(CurTasks[i], "False"))
                /\ UNCHANGED sent_cache
    /\ UNCHANGED <<now, r_phase>>
    /\ UNCHANGED notRelay

\* get_chat returns the chat of the handle
ResolveReturns(i) ==
    /\ r_phase = "gather"
    /\ i \in DOMAIN CurTasks
    /\ CurTasks[i].pc = "resolve"
    /\ ~Busy
    /\ CheckAndSend(i, ChatOfHandle(oplog[Cur].channels[i].token))
    /\ UNCHANGED <<now, r_phase>>
    /\ UNCHANGED notRelay

\* get_chat raises: send_to_one returns (False, None)
ResolveRaises(i) ==
    /\ r_phase = "gather"
    /\ i \in DOMAIN CurTasks
    /\ CurTasks[i].pc = "resolve"
    /\ ~Busy
    /\ SetTask(i, Returned(CurTasks[i], "False"))
    /\ UNCHANGED <<now, r_phase, sent_cache>>
    /\ UNCHANGED notRelay

\* the platform call returns: _send_one returns True and the key is recorded
CallReturns(i) ==
    /\ r_phase = "gather"
    /\ i \in DOMAIN CurTasks
    /\ CurTasks[i].pc = "call"
    /\ ~Busy
    /\ sent_cache' = CachePut(sent_cache, <<CurTasks[i].cid, oplog[Cur].src_key>>, now)
    /\ SetTask(i, Returned([CurTasks[i] EXCEPT !.sent = now], "True"))
    /\ UNCHANGED <<now, r_phase>>
    /\ UNCHANGED notRelay

\* the platform call raises r: _send_with_backoff counts and sleeps
CallRaises(i, r) ==
    /\ r_phase = "gather"
    /\ i \in DOMAIN CurTasks
    /\ CurTasks[i].pc = "call"
    /\ ~Busy
    /\ SetTask(i, [CurTasks[i] EXCEPT !.pc = "sleep",
                       !.attempt = AttemptAfter(CurTasks[i].attempt, r)])
    /\ UNCHANGED <<now, r_phase, sent_cache>>
    /\ UNCHANGED notRelay

\* the backoff sleep ends: call again, or give up (RuntimeError, which
\* _send_one turns into False)
BackoffReturns(i) ==
    /\ r_phase = "gather"
    /\ i \in DOMAIN CurTasks
    /\ CurTasks[i].pc = "sleep"
    /\ ~Busy
    /\ IF LoopAgain(CurTasks[i].attempt)
       THEN /\ CurTasks[i].calls < MaxCalls
            /\ SetTask(i, [CurTasks[i] EXCEPT !.pc = "call",
                               !.calls = CurTasks[i].calls + 1])
       ELSE SetTask(i, Returned(CurTasks[i], "False"))
    /\ UNCHANGED <<now, r_phase, sent_cache>>
    /\ UNCHANGED notRelay

\* every task has returned: gather returns and _finalize_progress_message
\* returns at once if the session is stale, and otherwise rewrites the lines
\* and edits the progress message (await edit_text)
GatherReturns ==
    /\ r_phase = "gather"
    /\ \A i \in DOMAIN CurTasks : CurTasks[i].pc = "done"
    /\ LET op == oplog[Cur]
       IN  IF Stale(op.progress)
           THEN /\ r_phase' = "idle"
                /\ UNCHANGED oplog
           ELSE /\ r_phase' = "finalize"
                /\ oplog' = [oplog EXCEPT ![Cur].progress.lines =
                      FinalLines(op.progress.lines, op.progress.index,
                                 op.channels, op.tasks, op.src_key,
                                 sent_cache, TRUE)]
    /\ UNCHANGED <<now, sent_cache>>
    /\ UNCHANGED notRelay

\* edit_text returns: the message shows the new lines, and the handler ends
FinalizeReturns ==
    /\ r_phase = "finalize"
    /\ r_phase' = "idle"
    /\ messages' = [messages EXCEPT ![oplog[Cur].progress.message] =
                                       oplog[Cur].progress.lines]
    /\ UNCHANGED <<now, sent_cache, oplog, progress_tokens>>
    /\ UNCHANGED relayEnv

\* edit_text raises: the exception is swallowed, and the handler ends
FinalizeRaises ==
    /\ r_phase = "finalize"
    /\ r_phase' = "idle"
    /\ UNCHANGED <<now, sent_cache, oplog>>
    /\ UNCHANGED notRelay

Init ==
    /\ InitShared
    /\ registry \in Registries
    /\ SendIdle
    /\ RelayIdle
    /\ AlbumIdle
    /\ DedupIdle

Next ==
    \/ Tick(sent_ttl)
    \/ \E u \in Units : HandleForward(u)
    \/ InitProgressReturns
    \/ InitProgressRaises
    \/ \E i \in 1..2 : SendToOneStart(i)
    \/ \E i \in 1..2 : ResolveReturns(i)
    \/ \E i \in 1..2 : ResolveRaises(i)
    \/ \E i \in 1..2 : CallReturns(i)
    \/ \E i \in 1..2, r \in Failures : CallRaises(i, r)
    \/ \E i \in 1..2 : BackoffReturns(i)
    \/ GatherReturns
    \/ FinalizeReturns
    \/ FinalizeRaises

Spec == Init /\ [][Next]_vars

----------------------------------------------------------------------------
(* One relay of a single message to three destinations *)

\* registries of three destinations: with ids, with a handle to resolve,
\* and with a token that is neither a handle nor a numeral
Registries3 ==
    { <<Entry("-1001", "-1001"), Entry("None", "@b"), Entry("-1003", "-1003")>>,
      <<Entry("-1001", "-1001"), Entry("None", "abc"), Entry("-1003", "-1003")>> }

InitFanout ==
    /\ InitShared
    /\ registry \in Registries3
    /\ SendIdle
    /\ RelayIdle
    /\ AlbumIdle
    /\ DedupIdle

\* the first message the bot is given
HandleFirstForward(u) ==
    /\ oplog = <<>>
    /\ HandleForward(u)

NextFanout ==
    \/ \E u \in Units : HandleFirstForward(u)
    \/ InitProgressReturns
    \/ InitProgressRaises
    \/ \E i \in 1..3 : SendToOneStart(i)
    \/ \E i \in 1..3 : ResolveReturns(i)
    \/ \E i \in 1..3 : ResolveRaises(i)
    \/ \E i \in 1..3 : CallReturns(i)
    \/ \E i \in 1..3, r \in Failures : CallRaises(i, r)
    \/ \E i \in 1..3 : BackoffReturns(i)
    \/ GatherReturns
    \/ FinalizeReturns
    \/ FinalizeRaises

SpecFanout == InitFanout /\ [][NextFanout]_vars

----------------------------------------------------------------------------
(* Claims about the single-message relay, checked under Spec *)

\* the destination tasks of all relays so far, as <<operation, index>>
AllTasks == {<<p, i>> \in (1..Len(oplog)) \X (1..3) : i \in DOMAIN oplog[p].tasks}
TaskAt(a) == oplog[a[1]].tasks[a[2]]

\* C1: when a relay of a unit to destination D has ended with a successful
\* send, a later relay of the same unit whose cache lookup for D happens
\* within the TTL makes no platform call to D and reports success for D.
C1_SecondRelaySkips ==
    \A a, b \in AllTasks :
        ( /\ a[1] < b[1]
          /\ oplog[a[1]].src_key = oplog[b[1]].src_key
          /\ TaskAt(a).cid = TaskAt(b).cid
          /\ TaskAt(a).sent >= 0
          /\ TaskAt(b).chk >= 0
          /\ TaskAt(b).chk - TaskAt(a).sent <= sent_ttl )
        => /\ TaskAt(a).status = "True"
           /\ TaskAt(b).status = "True"
           /\ ~TaskAt(b).called
           /\ TaskAt(b).sent = -1

C1_Witness ==
    \E a, b \in AllTasks :
        /\ a[1] < b[1]
        /\ oplog[a[1]].src_key = oplog[b[1]].src_key
        /\ TaskAt(a).cid = TaskAt(b).cid
        /\ TaskAt(a).sent >= 0
        /\ TaskAt(a).called
        /\ TaskAt(b).chk = sent_ttl + TaskAt(a).sent
        /\ TaskAt(b).status = "True"
        /\ ~TaskAt(b).called
        /\ r_phase = "idle"

\* C2: at most one platform send succeeds per (destination id, source key)
\* within one TTL window, whatever the interleaving of the destination
\* tasks and whatever the destination list.
C2_AtMostOneSendPerWindow ==
    \A a, b \in AllTasks :
        ( /\ a # b
          /\ oplog[a[1]].src_key = oplog[b[1]].src_key
          /\ TaskAt(a).cid = TaskAt(b).cid
          /\ TaskAt(a).sent >= 0
          /\ TaskAt(b).sent >= TaskAt(a).sent )
        => TaskAt(b).sent - TaskAt(a).sent > sent_ttl

\* the cache key of destination task a, and whether its lookup found it
KeyOf(a) == <<TaskAt(a).cid, oplog[a[1]].src_key>>
Hit(a) ==
    /\ TaskAt(a).chk >= 0
    /\ TaskAt(a).pc = "done"
    /\ TaskAt(a).status = "True"
    /\ ~TaskAt(a).called

\* C11: a lookup of (D, F) made by a later operation up to TTL after a
\* successful send recorded (D, F) finds the entry; a lookup finds an entry
\* only if some send recorded (D, F) at most TTL before it, so a lookup made
\* after the TTL finds none; and an entry always carries the time of a
\* send, the latest one, never the time of a skipped delivery.
C11_EntryLivesExactlyTTL ==
    /\ \A a, b \in AllTasks :
          ( /\ a[1] < b[1]
            /\ KeyOf(a) = KeyOf(b)
            /\ TaskAt(a).sent >= 0
            /\ TaskAt(b).chk >= 0
            /\ TaskAt(b).chk - TaskAt(a).sent <= sent_ttl )
          => Hit(b)
    /\ \A b \in AllTasks :
          Hit(b) =>
             \E a \in AllTasks :
                /\ a # b
                /\ KeyOf(a) = KeyOf(b)
                /\ TaskAt(a).sent >= 0
                /\ TaskAt(a).sent <= TaskAt(b).chk
                /\ TaskAt(b).chk - TaskAt(a).sent <= sent_ttl
    /\ \A key \in DOMAIN sent_cache :
          /\ \E a \in AllTasks : KeyOf(a) = key /\ TaskAt(a).sent = sent_cache[key]
          /\ \A a \in AllTasks : KeyOf(a) = key => TaskAt(a).sent <= sent_cache[key]

\* a send was recorded, a lookup of the same pair more than TTL later found
\* no entry, and the message was sent and recorded again
C11_Witness ==
    \E a, b \in AllTasks :
        /\ a[1] < b[1]
        /\ KeyOf(a) = KeyOf(b)
        /\ TaskAt(a).sent >= 0
        /\ TaskAt(b).chk - TaskAt(a).sent > sent_ttl
        /\ TaskAt(b).called
        /\ TaskAt(b).sent = TaskAt(b).chk
        /\ sent_cache[KeyOf(b)] = TaskAt(b).sent

\* C13: in a relay to three distinct destinations every destination task
\* ends with a status, True exactly when it recorded a send or found the
\* entry, whatever the other tasks did; the fan-out ends only when every
\* task has ended; and the lines computed at the end name the destinations
\* in registry order, each marked by its own task's status.
C13_FailuresContained ==
    /\ \A a \in AllTasks :
          TaskAt(a).pc = "done" =>
             /\ TaskAt(a).status \in {"True", "False"}
             /\ TaskAt(a).status = "True" <=> (TaskAt(a).sent >= 0 \/ Hit(a))
             /\ TaskAt(a).sent >= 0 =>
                   /\ KeyOf(a) \in DOMAIN sent_cache
                   /\ TaskAt(a).called
    /\ \A p \in DOMAIN oplog :
          (p < Cur \/ r_phase \in {"finalize", "idle"}) /\ oplog[p].progress.message # 0
             => \A i \in DOMAIN oplog[p].tasks : oplog[p].tasks[i].pc = "done"
    /\ r_phase = "finalize" =>
          /\ Len(oplog[Cur].progress.lines) = Len(oplog[Cur].channels)
          /\ \A i \in DOMAIN CurTasks :
                oplog[Cur].progress.lines[i] =
                   [mark |-> IF CurTasks[i].status = "True" THEN "ok" ELSE "fail",
                    name |-> EntryName(oplog[Cur].channels[i])]

\* the second of three destinations failed after a platform call, the
\* other two were sent to, and the message shows ok, fail, ok
C13_Witness ==
    /\ r_phase = "idle"
    /\ Len(oplog) = 1
    /\ Len(messages) = 1
    /\ [i \in 1..3 |-> messages[1][i].mark] = <<"ok", "fail", "ok">>
    /\ [i \in 1..3 |-> messages[1][i].name] = <<"-1001", "@b", "-1003">>
    /\ oplog[1].tasks[2].called
    /\ oplog[1].tasks[2].status = "False"
    /\ oplog[1].tasks[1].sent >= 0
    /\ oplog[1].tasks[3].sent >= 0

\* C14: the lines computed by a finalize that is not stale name the
\* destinations in registry order, line i carrying the success marker if
\* the result of destination i is success and the failure marker otherwise,
\* for every registry; no line keeps the pending marker.
C14_LinesFollowRegistry ==
    r_phase = "finalize" =>
        \A i \in DOMAIN CurTasks :
            oplog[Cur].progress.lines[i] =
               [mark |-> IF CurTasks[i].status = "True" THEN "ok" ELSE "fail",
                name |-> EntryName(oplog[Cur].channels[i])]

\* both messages are forwards of the same message of the same channel
SameForwardedSource(m1, m2) ==
    /\ m1.forward_from_chat # 0
    /\ m1.forward_from_message_id # 0
    /\ m1.forward_from_chat = m2.forward_from_chat
    /\ m1.forward_from_message_id = m2.forward_from_message_id

\* C19: two messages the relay received have the same source key only when
\* both are forwards of the same message of the same channel, and a delivery
\* is skipped for an entry another message recorded only in that case.
C19_FingerprintsAreUnique ==
    /\ \A p, q \in DOMAIN oplog :
          (p < q /\ oplog[p].src_key = oplog[q].src_key)
              => SameForwardedSource(oplog[p].m, oplog[q].m)
    /\ \A a, b \in AllTasks :
          ( /\ a[1] < b[1]
            /\ TaskAt(a).sent >= 0
            /\ Hit(b)
            /\ KeyOf(a) = KeyOf(b) )
          => SameForwardedSource(oplog[a[1]].m, oplog[b[1]].m)

----------------------------------------------------------------------------
(* One relay of a single message on a platform that answers every call, with
   the calls of a task counted up to MaxCalls and not beyond *)

\* the backoff sleep of a task that has made MaxCalls calls ends: the loop
\* of _send_with_backoff calls again, and the count stays where it is
BackoffReturnsUncounted(i) ==
    /\ r_phase = "gather"
    /\ i \in DOMAIN CurTasks
    /\ CurTasks[i].pc = "sleep"
    /\ ~Busy
    /\ LoopAgain(CurTasks[i].attempt)
    /\ CurTasks[i].calls = MaxCalls
    /\ SetTask(i, [CurTasks[i] EXCEPT !.pc = "call"])
    /\ UNCHANGED <<now, r_phase, sent_cache>>
    /\ UNCHANGED notRelay

\* what the event loop and the platform do once the message is received
RelaySteps ==
    \/ InitProgressReturns
    \/ InitProgressRaises
    \/ \E i \in 1..3 : SendToOneStart(i)
    \/ \E i \in 1..3 : ResolveReturns(i)
    \/ \E i \in 1..3 : ResolveRaises(i)
    \/ \E i \in 1..3 : CallReturns(i)
    \/ \E i \in 1..3, r \in Failures : CallRaises(i, r)
    \/ \E i \in 1..3 : BackoffReturns(i)
    \/ \E i \in 1..3 : BackoffReturnsUncounted(i)
    \/ GatherReturns
    \/ FinalizeReturns
    \/ FinalizeRaises

NextRetry ==
    \/ \E u \in Units : HandleFirstForward(u)
    \/ RelaySteps

SpecRetry == InitFanout /\ [][NextRetry]_vars

\* every call is answered, every sleep ends and every task that is ready
\* runs
FairSpecRetry == SpecRetry /\ WF_vars(RelaySteps)

\* C23: a relay that has created its destination tasks gets to the point
\* where all of them have returned and the progress message is finalized.
C23_RelayTerminates ==
    (r_phase = "gather") ~> (r_phase \in {"finalize", "idle"})

\* C24: when the first relay sent the message to one destination and failed
\* for another, the second relay of a message with the same source key,
\* looking the first destination up within the TTL, skips it without a
\* platform call, and makes a platform call for the other destination: the
\* failure left no entry.
C24_OnlyFailedDestinationsRetried ==
    \A a, b \in AllTasks :
        ( /\ Len(oplog) = 2
          /\ a[1] = 1
          /\ b[1] = 1
          /\ oplog[1].src_key = oplog[2].src_key
          /\ TaskAt(a).sent >= 0
          /\ TaskAt(b).pc = "done"
          /\ TaskAt(b).status = "False" )
        => LET a2 == TaskAt(<<2, a[2]>>)
               b2 == TaskAt(<<2, b[2]>>)
           IN  /\ (a2.chk >= 0 /\ a2.chk - TaskAt(a).sent <= sent_ttl)
                     => ~a2.called /\ a2.status = "True"
               /\ (b2.chk >= 0 /\ b2.cid # TaskAt(a).cid) => b2.called

\* the first relay sent to -1001 and failed for -1002; the second relay of
\* the same message skipped -1001 and sent to -1002
C24_Witness ==
    /\ Len(oplog) = 2
    /\ r_phase = "idle"
    /\ oplog[1].src_key = oplog[2].src_key
    /\ TaskAt(<<1, 1>>).sent >= 0
    /\ TaskAt(<<1, 2>>).status = "False"
    /\ TaskAt(<<1, 2>>).called
    /\ Hit(<<2, 1>>)
    /\ TaskAt(<<2, 1>>).cid = "-1001"
    /\ TaskAt(<<2, 2>>).cid = "-1002"
    /\ TaskAt(<<2, 2>>).called
    /\ TaskAt(<<2, 2>>).sent >= 0

\* C27: in the lines a finalize computes, a destination whose task returned
\* False with its chat id resolved, and whose line no other entry writes,
\* carries the failure marker, whatever the dedup cache holds.
C27_StructuredFailureShownAsFailure ==
    r_phase = "finalize" =>
        \A i \in DOMAIN CurTasks :
            ( /\ CurTasks[i].status = "False"
              /\ CurTasks[i].cid # "None"
              /\ IndexGet(oplog[Cur].progress.index,
                          IdxKeyFinal(oplog[Cur].channels[i])) = i
              /\ \A j \in DOMAIN CurTasks :
                    j # i => IdxKeyFinal(oplog[Cur].channels[j])
                                # IdxKeyFinal(oplog[Cur].channels[i]) )
            => oplog[Cur].progress.lines[i].mark = "fail"

----------------------------------------------------------------------------
(* The album aggregator: handle_forward for a message with a media_group_id,
   _buffer_media_group, and the _flush_media_group tasks *)

\* album parts received in one behaviour
MaxArrivals == 3
\* steps of the clock in one behaviour of the aggregator
MaxAlbumTicks == 1

\* The album parts that can arrive, named by their message ids: album "g1"
\* has three photos and is forwarded from channel 7; album "g2" has one
\* video and is not forwarded from a channel.
AlbumParts == {1, 2, 3, 4}
GidOf(p) == IF p \in {1, 2, 3} THEN "g1" ELSE "g2"
PartKind(p) == IF p = 4 THEN "video" ELSE "photo"

\* _src_group_key of part p
SrcGroupKey(p) == IF GidOf(p) = "g1" THEN "group:7:g1" ELSE "group::g2"

\* msgs.sort(key=message_id): a stable insertion sort
InsertById(s, x) ==
    LET k == Cardinality({i \in 1..Len(s) : s[i] <= x})
    IN  SubSeq(s, 1, k) \o <<x>> \o SubSeq(s, k + 1, Len(s))
ArrivalOrder(s) == s
RECURSIVE SortByMessageId(_)
SortByMessageId(s) ==
    IF s = <<>> THEN <<>>
    ELSE InsertById(SortByMessageId(SubSeq(s, 1, Len(s) - 1)), s[Len(s)])

\* send_album_to_one's media_list: the photo, video and document parts
HasAlbumMedia(p) == PartKind(p) \in {"photo", "video", "document"}
MediaList(msgs) == SelectSeq(msgs, HasAlbumMedia)

\* _prune_groups: the album markers that are kept at time t
PruneGroupsAll(pg, t) == <<>>
PruneGroups(pg, t) ==
    [k \in {x \in DOMAIN pg : ~(t - pg[x] > group_ttl)} |-> pg[k]]

\* the ordering gate of _flush_media_group: "while my_seq != group_next_seq"
GateAlwaysOpen(my_seq, next_seq) == TRUE
GateOpen(my_seq, next_seq) == my_seq = next_seq

\* the exceptions send_media_group raises in the model: one rate limit and
\* the other kinds
AlbumFailures == {r \in Failures : r.kind = "RetryAfter" => r.w = 5}

\* _send_media_group_no_retry's "except RetryAfter"
RetriesAnyFailure(r) == TRUE
RetriesAlbumSend(r) == r.kind = "RetryAfter"
\* and the sleep it takes before the second call
AlbumSleepFor(r) == r.w + 1

\* dict.pop(k, None)
Without(f, k) == [x \in DOMAIN f \ {k} |-> f[x]]

\* One send_album_to_one task: where it is, the chat id, whether it has a
\* cancellation to take, the number of send_media_group calls of its
\* running _send_media_group_no_retry, the retry_after of the rate limit
\* that met (-1: none) and the sleep it took, and for the claims the status
\* returned, the media list sent and the times of the cache lookup and of
\* the cache record (-1: none).
NewKid ==
    [pc |-> "new", cid |-> "None", cancel |-> FALSE, calls |-> 0, ra |-> -1,
     slept |-> 0, status |-> "none", media |-> <<>>, chk |-> -1, sent |-> -1]

\* One _flush_media_group task: its album, where it is, whether it has a
\* cancellation to take, its locals entered_sequence, my_seq, msgs (alias:
\* msgs is still the list held by media_group_buffer), group_src_key and
\* progress, and its send_album_to_one tasks.
NewFlush(g) ==
    [gid |-> g, pc |-> "unstarted", cancel |-> FALSE, entered |-> FALSE,
     my_seq |-> -1, msgs |-> <<>>, alias |-> FALSE, key |-> "", kids |-> <<>>,
     progress |-> NoProgress, marked |-> -1]

\* Task.cancel(): nothing for a task that is done; otherwise the task takes
\* a CancelledError at its next step, and a task waiting in gather passes
\* the cancellation on to the tasks it gathers
CancelTask(f) ==
    IF Ended(f) THEN f
    ELSE [f EXCEPT !.cancel = TRUE,
                   !.kids = [i \in DOMAIN f.kids |->
                               IF f.kids[i].pc \in {"done", "cancelled"}
                               THEN f.kids[i]
                               ELSE [f.kids[i] EXCEPT !.cancel = TRUE]]]

\* the finally clause's "if entered_sequence", for flush task f
ReleasesTokenAlways(f) == TRUE
ReleasesToken(f) == f.entered

\* the finally clause of _flush_media_group, run by task t of fl: release
\* the order token if it was taken, pop the album's buffer, pop the album's
\* registered flush task and cancel it unless it is done; the task ends
\* and the results it gathered are gone
FlushFinally(fl, t) ==
    LET g == fl[t].gid
        popped == IF g \in DOMAIN media_group_tasks
                  THEN media_group_tasks[g] ELSE 0
        unalias(f) == IF f.gid = g THEN [f EXCEPT !.alias = FALSE] ELSE f
    IN  /\ group_next_seq' = IF ReleasesToken(fl[t]) THEN group_next_seq + 1
                             ELSE group_next_seq
        /\ media_group_buffer' = Without(media_group_buffer, g)
        /\ media_group_tasks' = Without(media_group_tasks, g)
        /\ flush' = [u \in DOMAIN fl |->
                       IF u = t
                       THEN [fl[u] EXCEPT !.pc = "done", !.cancel = FALSE,
                                          !.alias = FALSE, !.kids = <<>>,
                                          !.progress = NoProgress]
                       ELSE IF u = popped THEN CancelTask(unalias(fl[u]))
                       ELSE unalias(fl[u])]

\* the clock advances by d seconds
AlbumTick(d) ==
    /\ nticks < MaxAlbumTicks
    /\ ~Busy
    /\ nticks' = nticks + 1
    /\ now' = now + d
    /\ UNCHANGED <<registry, sent_cache, sendVars, relayVars, albumVars, progVars,
                   dedupVars>>

\* handle_forward is called, when no other update is being handled, with
\* part p of an album: _buffer_media_group
\* appends it to the album's buffer, gives the album an order token if it
\* has none, cancels the album's registered flush task and creates and
\* registers a new one
BufferMediaGroup(p) ==
    /\ r_phase = "idle"
    /\ Len(arrived) < MaxArrivals
    /\ registry # <<>>
    /\ \A k \in 1..Len(arrived) : arrived[k].p # p
    /\ LET g == GidOf(p)
           buf == IF g \in DOMAIN media_group_buffer
                  THEN media_group_buffer[g] ELSE <<>>
           tid == Len(flush) + 1
           old == IF g \in DOMAIN media_group_tasks
                  THEN media_group_tasks[g] ELSE 0
           grow(f) == IF f.gid = g /\ f.alias
                      THEN [f EXCEPT !.msgs = Append(buf, p)] ELSE f
       IN  /\ media_group_buffer' = (g :> Append(buf, p)) @@ media_group_buffer
           /\ IF g \in DOMAIN group_order
              THEN UNCHANGED <<group_order, group_seq_counter>>
              ELSE /\ group_order' = (g :> group_seq_counter) @@ group_order
                   /\ group_seq_counter' = group_seq_counter + 1
           /\ flush' = Append([u \in DOMAIN flush |->
                                 IF u = old THEN CancelTask(grow(flush[u]))
                                 ELSE grow(flush[u])],
                              NewFlush(g))
           /\ media_group_tasks' = (g :> tid) @@ media_group_tasks
           /\ arrived' = Append(arrived,
                 [p |-> p,
                  quick |-> old # 0 /\ flush[old].pc \in {"unstarted", "debounce"}])
    /\ UNCHANGED <<now, sent_cache, group_next_seq, processed_groups>>
    /\ UNCHANGED notAlbum

\* a flush task runs for the first time, up to "await asyncio.sleep(2)"
FlushStart(t) ==
    /\ t \in DOMAIN flush
    /\ flush[t].pc = "unstarted"
    /\ ~flush[t].cancel
    /\ ~CancelPending
    /\ flush' = [flush EXCEPT ![t].pc = "debounce"]
    /\ UNCHANGED <<now, sent_cache, media_group_buffer, media_group_tasks,
                   group_order, group_seq_counter, group_next_seq,
                   processed_groups, arrived>>
    /\ UNCHANGED notAlbum

\* a cancelled flush task takes its cancellation: one that never ran ends
\* without running any of its code; one that waits in gather takes it when
\* the tasks it gathers have ended; the others take it at their await and
\* run the finally clause
FlushCancelled(t) ==
    /\ t \in DOMAIN flush
    /\ flush[t].cancel
    /\ ~Ended(flush[t])
    /\ \A i \in DOMAIN flush[t].kids :
          flush[t].kids[i].pc \in {"done", "cancelled"}
    /\ IF flush[t].pc = "unstarted"
       THEN /\ flush' = [flush EXCEPT ![t].pc = "dead", ![t].cancel = FALSE]
            /\ UNCHANGED <<media_group_buffer, media_group_tasks, group_next_seq>>
       ELSE FlushFinally(flush, t)
    /\ UNCHANGED <<now, sent_cache, group_order, group_seq_counter,
                   processed_groups, arrived>>
    /\ UNCHANGED notAlbum

\* the debounce sleep ends: the flush takes the album's buffer, sorts it,
\* returns if the album is marked as processed, marks it, and enters the
\* ordering gate; past the gate it posts the progress message
FlushDebounceReturns(t) ==
    /\ t \in DOMAIN flush
    /\ flush[t].pc = "debounce"
    /\ ~flush[t].cancel
    /\ ~Busy
    /\ LET g == flush[t].gid
           msgs0 == IF g \in DOMAIN media_group_buffer
                    THEN media_group_buffer[g] ELSE <<>>
           msgs == SortByMessageId(msgs0)
           key == SrcGroupKey(msgs[1])
           pg == PruneGroups(processed_groups, now)
           my == IF g \in DOMAIN group_order THEN group_order[g] ELSE 0
           f1 == [flush[t] EXCEPT !.msgs = msgs, !.alias = TRUE]
       IN  IF msgs0 = <<>>
           THEN /\ FlushFinally(flush, t)
                /\ UNCHANGED processed_groups
           ELSE IF key \in DOMAIN pg
           THEN /\ processed_groups' = pg
                /\ FlushFinally([flush EXCEPT ![t] = f1], t)
           ELSE /\ processed_groups' = (key :> now) @@ pg
                /\ media_group_buffer' = [media_group_buffer EXCEPT ![g] = msgs]
                /\ flush' = [flush EXCEPT ![t] =
                      [f1 EXCEPT !.key = key, !.my_seq = my, !.marked = now,
                                 !.entered = GateOpen(my, group_next_seq),
                                 !.pc = IF GateOpen(my, group_next_seq)
                                        THEN "init" ELSE "gate"]]
                /\ UNCHANGED <<media_group_tasks, group_next_seq>>
    /\ UNCHANGED <<now, sent_cache, group_order, group_seq_counter, arrived>>
    /\ UNCHANGED notAlbum

\* a poll of the ordering gate (sleep(0.1)) finds the flush's turn
FlushGateOpens(t) ==
    /\ t \in DOMAIN flush
    /\ flush[t].pc = "gate"
    /\ ~flush[t].cancel
    /\ ~Busy
    /\ GateOpen(flush[t].my_seq, group_next_seq)
    /\ flush' = [flush EXCEPT ![t].pc = "init", ![t].entered = TRUE]
    /\ UNCHANGED <<now, sent_cache, media_group_buffer, media_group_tasks,
                   group_order, group_seq_counter, group_next_seq,
                   processed_groups, arrived>>
    /\ UNCHANGED notAlbum

\* reply_text returns: gather creates one send_album_to_one task per channel
AlbumProgressReturns(t) ==
    /\ t \in DOMAIN flush
    /\ flush[t].pc = "init"
    /\ ~flush[t].cancel
    /\ ~Busy
    /\ flush' = [flush EXCEPT ![t].pc = "gather",
                              ![t].progress = OpenProgress(registry),
                              ![t].kids = [i \in DOMAIN registry |-> NewKid]]
    /\ OpenSession(registry)
    /\ UNCHANGED <<now, sent_cache, media_group_buffer, media_group_tasks,
                   group_order, group_seq_counter, group_next_seq,
                   processed_groups, arrived>>
    /\ UNCHANGED albumEnv

\* reply_text raises: the exception leaves the flush through finally
AlbumProgressRaises(t) ==
    /\ t \in DOMAIN flush
    /\ flush[t].pc = "init"
    /\ ~flush[t].cancel
    /\ ~Busy
    /\ FlushFinally(flush, t)
    /\ UNCHANGED <<now, sent_cache, group_order, group_seq_counter,
                   processed_groups, arrived>>
    /\ UNCHANGED notAlbum

SetKid(t, i, k) == flush' = [flush EXCEPT ![t].kids[i] = k]
\* the task returns status: the locals of its _send_media_group_no_retry
\* are gone
KidReturned(k, status) ==
    [k EXCEPT !.pc = "done", !.status = status, !.calls = 0, !.ra = -1,
              !.slept = 0]

\* send_album_to_one from "key = (cid, group_src_key)" to its next await or
\* its return: prune, look the key up, build the media list, and make the
\* first send_media_group call
AlbumCheckAndSend(t, i, cid) ==
    LET k == [flush[t].kids[i] EXCEPT !.cid = cid, !.chk = now]
        c == PruneCache(sent_cache, now)
        key == <<cid, flush[t].key>>
        media_list == MediaList(flush[t].msgs)
    IN  /\ sent_cache' = c
        /\ IF key \in DOMAIN c
           THEN SetKid(t, i, KidReturned(k, "True"))
           ELSE IF media_list = <<>>
           THEN SetKid(t, i, KidReturned(k, "False"))
           ELSE SetKid(t, i, [k EXCEPT !.pc = "call1", !.calls = 1,
                                       !.media = media_list])

\* what every step of a send_album_to_one task leaves alone
KidFrame ==
    /\ UNCHANGED <<now, media_group_buffer, media_group_tasks, group_order,
                   group_seq_counter, group_next_seq, processed_groups, arrived>>
    /\ UNCHANGED notAlbum

KidAt(t, i, pcs) ==
    /\ t \in DOMAIN flush
    /\ flush[t].pc = "gather"
    /\ i \in DOMAIN flush[t].kids
    /\ flush[t].kids[i].pc \in pcs
    /\ ~flush[t].kids[i].cancel

\* a send_album_to_one task starts: it takes the semaphore and finds its
\* chat id, from the entry, from int(token), or by awaiting get_chat
SendAlbumToOneStart(t, i) ==
    /\ KidAt(t, i, {"new"})
    /\ \A j \in 1..(i - 1) : flush[t].kids[j].pc # "new"
    /\ SemFree(KidsInFlight(flush[t].kids))
    /\ LET e == registry[i]
       IN  IF e.id # "None"
           THEN AlbumCheckAndSend(t, i, e.id)
           ELSE IF IsHandle(e.token)
           THEN /\ SetKid(t, i, [flush[t].kids[i] EXCEPT !.pc = "resolve"])
                /\ UNCHANGED sent_cache
           ELSE IF IntOfToken(e.token) # "None"
           THEN AlbumCheckAndSend(t, i, IntOfToken(e.token))
           ELSE /\ SetKid(t, i, KidReturned(flush[t].kids[i], "False"))
                /\ UNCHANGED sent_cache
    /\ KidFrame

\* get_chat returns the chat of the handle
AlbumResolveReturns(t, i) ==
    /\ KidAt(t, i, {"resolve"})
    /\ ~Busy
    /\ AlbumCheckAndSend(t, i, ChatOfHandle(registry[i].token))
    /\ KidFrame

\* get_chat raises: send_album_to_one returns (False, None)
AlbumResolveRaises(t, i) ==
    /\ KidAt(t, i, {"resolve"})
    /\ ~Busy
    /\ SetKid(t, i, KidReturned(flush[t].kids[i], "False"))
    /\ UNCHANGED sent_cache
    /\ KidFrame

\* send_media_group returns: the key is recorded and the task returns True
MediaGroupReturns(t, i) ==
    /\ KidAt(t, i, {"call1", "call2"})
    /\ ~Busy
    /\ sent_cache' = CachePut(sent_cache, <<flush[t].kids[i].cid, flush[t].key>>, now)
    /\ SetKid(t, i, KidReturned([flush[t].kids[i] EXCEPT !.sent = now], "True"))
    /\ KidFrame

\* send_media_group raises r: the first call of _send_media_group_no_retry
\* sleeps on RetryAfter; every other exception, and every exception of the
\* second call, leaves it and send_album_to_one returns False
MediaGroupRaises(t, i, r) ==
    /\ KidAt(t, i, {"call1", "call2"})
    /\ ~Busy
    /\ IF flush[t].kids[i].pc = "call1" /\ RetriesAlbumSend(r)
       THEN SetKid(t, i, [flush[t].kids[i] EXCEPT
                             !.pc = "sleep",
                             !.ra = IF r.kind = "RetryAfter" THEN r.w ELSE -1,
                             !.slept = AlbumSleepFor(r)])
       ELSE SetKid(t, i, KidReturned(flush[t].kids[i], "False"))
    /\ UNCHANGED sent_cache
    /\ KidFrame

\* the sleep of _send_media_group_no_retry ends: the second call
AlbumSleepReturns(t, i) ==
    /\ KidAt(t, i, {"sleep"})
    /\ ~Busy
    /\ SetKid(t, i, [flush[t].kids[i] EXCEPT !.pc = "call2", !.calls = 2])
    /\ UNCHANGED sent_cache
    /\ KidFrame

\* a cancelled send_album_to_one task takes its cancellation: CancelledError
\* is no Exception, so it leaves the task
SendAlbumCancelled(t, i) ==
    /\ t \in DOMAIN flush
    /\ i \in DOMAIN flush[t].kids
    /\ flush[t].kids[i].cancel
    /\ flush[t].kids[i].pc \notin {"done", "cancelled"}
    /\ SetKid(t, i, [flush[t].kids[i] EXCEPT !.pc = "cancelled", !.cancel = FALSE,
                                             !.calls = 0, !.ra = -1, !.slept = 0])
    /\ UNCHANGED sent_cache
    /\ KidFrame

\* every send_album_to_one task has returned: gather returns and
\* _finalize_progress_message returns at once if the session is stale, which
\* ends the flush through finally, and otherwise rewrites the lines and
\* edits the progress message (await edit_text)
AlbumGatherReturns(t) ==
    /\ t \in DOMAIN flush
    /\ flush[t].pc = "gather"
    /\ ~flush[t].cancel
    /\ \A i \in DOMAIN flush[t].kids : flush[t].kids[i].pc = "done"
    /\ LET f == flush[t]
       IN  IF Stale(f.progress)
           THEN FlushFinally(flush, t)
           ELSE /\ flush' = [flush EXCEPT ![t].pc = "finalize",
                      ![t].progress.lines =
                          FinalLines(f.progress.lines, f.progress.index,
                                     registry, f.kids, f.key, sent_cache, FALSE)]
                /\ UNCHANGED <<media_group_buffer, media_group_tasks,
                               group_next_seq>>
    /\ UNCHANGED <<now, sent_cache, group_order, group_seq_counter,
                   processed_groups, arrived>>
    /\ UNCHANGED notAlbum

\* edit_text returns: the message shows the new lines, and the flush ends
\* through finally
AlbumFinalizeReturns(t) ==
    /\ t \in DOMAIN flush
    /\ flush[t].pc = "finalize"
    /\ ~flush[t].cancel
    /\ ~Busy
    /\ messages' = [messages EXCEPT ![flush[t].progress.message] =
                                       flush[t].progress.lines]
    /\ FlushFinally(flush, t)
    /\ UNCHANGED <<now, sent_cache, group_order, group_seq_counter,
                   processed_groups, arrived, progress_tokens>>
    /\ UNCHANGED albumEnv

\* edit_text raises: the exception is swallowed, and the flush ends through
\* finally
AlbumFinalizeRaises(t) ==
    /\ t \in DOMAIN flush
    /\ flush[t].pc = "finalize"
    /\ ~flush[t].cancel
    /\ ~Busy
    /\ FlushFinally(flush, t)
    /\ UNCHANGED <<now, sent_cache, group_order, group_seq_counter,
                   processed_groups, arrived>>
    /\ UNCHANGED notAlbum

\* the registries of the album specification
AlbumRegistries ==
    { <<Entry("-1001", "-1001"), Entry("None", "@b")>>,
      <<Entry("-1001", "-1001"), Entry("None", "@a")>> }

InitAlbum ==
    /\ InitShared
    /\ registry \in AlbumRegistries
    /\ SendIdle
    /\ RelayIdle
    /\ AlbumIdle
    /\ DedupIdle

\* the steps the event loop takes by itself
AlbumSteps ==
    \/ \E t \in 1..MaxArrivals : FlushStart(t)
    \/ \E t \in 1..MaxArrivals : FlushCancelled(t)
    \/ \E t \in 1..MaxArrivals : FlushDebounceReturns(t)
    \/ \E t \in 1..MaxArrivals : FlushGateOpens(t)
    \/ \E t \in 1..MaxArrivals : AlbumProgressReturns(t)
    \/ \E t \in 1..MaxArrivals, i \in 1..2 : SendAlbumToOneStart(t, i)
    \/ \E t \in 1..MaxArrivals, i \in 1..2 : AlbumResolveReturns(t, i)
    \/ \E t \in 1..MaxArrivals, i \in 1..2 : MediaGroupReturns(t, i)
    \/ \E t \in 1..MaxArrivals, i \in 1..2 : AlbumSleepReturns(t, i)
    \/ \E t \in 1..MaxArrivals, i \in 1..2 : SendAlbumCancelled(t, i)
    \/ \E t \in 1..MaxArrivals : AlbumGatherReturns(t)
    \/ \E t \in 1..MaxArrivals : AlbumFinalizeReturns(t)

NextAlbum ==
    \/ AlbumTick(group_ttl + 1)
    \/ \E p \in AlbumParts : BufferMediaGroup(p)
    \/ AlbumSteps
    \/ \E t \in 1..MaxArrivals : AlbumProgressRaises(t)
    \/ \E t \in 1..MaxArrivals : AlbumFinalizeRaises(t)
    \/ \E t \in 1..MaxArrivals, i \in 1..2 : AlbumResolveRaises(t, i)
    \/ \E t \in 1..MaxArrivals, i \in 1..2, r \in AlbumFailures : MediaGroupRaises(t, i, r)

SpecAlbum == InitAlbum /\ [][NextAlbum]_vars

\* the event loop keeps running and the platform answers every call
FairSpecAlbum == SpecAlbum /\ WF_vars(AlbumSteps)

----------------------------------------------------------------------------
(* Claims about the album aggregator, checked under SpecAlbum and, for
   progress, under FairSpecAlbum *)

Gids == {GidOf(p) : p \in AlbumParts}
Range(s) == {s[k] : k \in DOMAIN s}
ArrivalsOf(g) == {k \in DOMAIN arrived : GidOf(arrived[k].p) = g}
PartsOf(g) == {arrived[k].p : k \in ArrivalsOf(g)}
FlushesOf(g) == {t \in DOMAIN flush : flush[t].gid = g}
AllKids == {a \in (DOMAIN flush) \X (1..2) : a[2] \in DOMAIN flush[a[1]].kids}
KidOf(a) == flush[a[1]].kids[a[2]]
Ascending(s) == \A j, k \in DOMAIN s : j < k => s[j] < s[k]

\* C3: when every part of an album after the first arrived while the
\* album's flush task was still pending (not yet fired), and no flush task
\* of the album is pending any more, exactly one flush task of the album
\* went on to dispatch, and it holds every part that arrived.
C3_DebounceKeepsAllParts ==
    \A g \in Gids :
        ( /\ ArrivalsOf(g) # {}
          /\ \A k \in ArrivalsOf(g) :
                (\E j \in ArrivalsOf(g) : j < k) => arrived[k].quick
          /\ \A t \in FlushesOf(g) : flush[t].pc \notin {"unstarted", "debounce"} )
        => \E t \in FlushesOf(g) :
              /\ flush[t].my_seq >= 0
              /\ Range(flush[t].msgs) = PartsOf(g)
              /\ \A u \in FlushesOf(g) : flush[u].my_seq >= 0 => u = t

\* C4: the media list of every send_media_group call is in ascending order
\* of message id, whatever the order of arrival, and it is the media of the
\* parts its flush task took from the buffer.
C4_PartsSentInMessageIdOrder ==
    \A a \in AllKids :
        KidOf(a).media # <<>> =>
            /\ Ascending(KidOf(a).media)
            /\ KidOf(a).media =
                  SubSeq(MediaList(flush[a[1]].msgs), 1, Len(KidOf(a).media))
            /\ Range(KidOf(a).media) \subseteq PartsOf(flush[a[1]].gid)

\* the parts arrived as [2, 1, 3] and went to both destinations as [1, 2, 3]
C4_Witness ==
    /\ [k \in DOMAIN arrived |-> arrived[k].p] = <<2, 1, 3>>
    /\ \E t \in DOMAIN flush :
          /\ DOMAIN flush[t].kids = {1, 2}
          /\ \A i \in {1, 2} :
                /\ flush[t].kids[i].media = <<1, 2, 3>>
                /\ flush[t].kids[i].status = "True"
                /\ flush[t].kids[i].sent >= 0

\* C5: order tokens follow the order in which the albums' first parts
\* arrived, and while a flush is in its dispatch phase (or has been in it)
\* every lower token belongs to a flush whose dispatch phase is over and
\* has released the gate; a flush in its dispatch phase holds the gate.
C5_AlbumsDispatchedInArrivalOrder ==
    /\ \A g \in DOMAIN group_order :
          group_order[g] =
             Cardinality({h \in Gids :
                 \E k \in ArrivalsOf(h) : \A j \in ArrivalsOf(g) : k < j})
    /\ \A u \in DOMAIN flush :
          flush[u].pc \in {"init", "gather", "finalize"} =>
             /\ flush[u].entered
             /\ group_next_seq = flush[u].my_seq
    /\ \A u \in DOMAIN flush :
          (flush[u].entered \/ flush[u].kids # <<>>) =>
             /\ group_next_seq >= flush[u].my_seq
             /\ \A n \in 0..(flush[u].my_seq - 1) :
                   \E t \in DOMAIN flush :
                      /\ flush[t].my_seq = n
                      /\ flush[t].entered
                      /\ flush[t].pc = "done"

\* album g1 (token 0) and album g2 (token 1): g2's flush fired while g1's
\* was still pending, g1 has been dispatched, and g2 is now sending
C5_Witness ==
    \E t, u \in DOMAIN flush :
        /\ flush[t].my_seq = 0
        /\ flush[u].my_seq = 1
        /\ flush[t].gid = "g1"
        /\ flush[u].gid = "g2"
        /\ u < t
        /\ flush[t].pc = "done"
        /\ flush[t].entered
        /\ \E i \in DOMAIN flush[u].kids : flush[u].kids[i].pc = "call1"

\* C6: a flush that waits at the ordering gate eventually leaves it: its
\* turn comes, or a newer part of its album cancels it.
C6_GateEventuallyOpens ==
    \A t \in 1..MaxArrivals :
        (t \in DOMAIN flush /\ flush[t].pc = "gate")
            ~> (t \in DOMAIN flush /\ flush[t].pc # "gate")

\* C10: send_media_group is called at most twice by one send_album_to_one
\* task; the second call follows a sleep of retry_after + 1 that only a
\* RetryAfter of the first call starts; every other failure of the first
\* call and every failure of the second ends the task with status False and
\* no cache record.
C10_AlbumSendAtMostTwice ==
    [][\A a \in AllKids :
          LET k == KidOf(a)
              k2 == IF a[2] \in DOMAIN flush'[a[1]].kids
                    THEN flush'[a[1]].kids[a[2]] ELSE k
          IN  /\ k2.calls <= 2
              /\ (k.pc = "call1" /\ k2.pc # "call1") =>
                    \/ k2.pc = "sleep" /\ k2.ra \in RetryAfterVals
                                       /\ k2.slept = k2.ra + 1
                    \/ k2.pc = "cancelled"
                    \/ k2.pc = "done" /\ k2.status = "True" /\ k2.sent >= 0
                    \/ k2.pc = "done" /\ k2.status = "False" /\ k2.sent = -1
              /\ (k2.pc = "call2" /\ k.pc # "call2") =>
                    /\ k.pc = "sleep"
                    /\ k.calls = 1
                    /\ k2.calls = 2
                    /\ k.ra \in RetryAfterVals
                    /\ k.slept = k.ra + 1
              /\ (k.pc = "call2" /\ k2.pc # "call2") =>
                    \/ k2.pc = "cancelled"
                    \/ k2.pc = "done" /\ k2.status = "True" /\ k2.sent >= 0
                    \/ k2.pc = "done" /\ k2.status = "False" /\ k2.sent = -1
      ]_vars

\* a destination is in its second call after a RetryAfter of 5 s and a
\* sleep of 6 s, while the other destination failed at its first call
C10_Witness ==
    \E t \in DOMAIN flush :
        /\ DOMAIN flush[t].kids = {1, 2}
        /\ flush[t].kids[1].pc = "call2"
        /\ flush[t].kids[1].calls = 2
        /\ flush[t].kids[1].ra = 5
        /\ flush[t].kids[1].slept = 6
        /\ flush[t].kids[2].pc = "done"
        /\ flush[t].kids[2].status = "False"
        /\ flush[t].kids[2].media # <<>>

\* the cache key of send_album_to_one task a, and whether its lookup found it
AlbumKeyOf(a) == <<KidOf(a).cid, flush[a[1]].key>>
AlbumHit(a) ==
    /\ KidOf(a).chk >= 0
    /\ KidOf(a).pc = "done"
    /\ KidOf(a).status = "True"
    /\ KidOf(a).sent = -1

C17_DispatchRunsToCompletion ==
    \A t \in DOMAIN flush :
        flush[t].pc = "gather" =>
            /\ ~flush[t].cancel
            /\ \A i \in DOMAIN flush[t].kids :
                  /\ ~flush[t].kids[i].cancel
                  /\ flush[t].kids[i].pc # "cancelled"

\* the flush tasks that went on to dispatch: they found no marker for their
\* album key, set it (at the time "marked") and headed for the gate, the
\* progress session and the sends
Dispatching == {t \in DOMAIN flush : flush[t].key # ""}

\* the flush tasks that fired, found their album marked and returned
Suppressed ==
    {t \in DOMAIN flush : /\ flush[t].pc = "done"
                          /\ flush[t].key = ""
                          /\ flush[t].msgs # <<>>}

\* C18: two flush tasks that go on to dispatch the same album key do so
\* more than 7200 s apart, and a flush that finds its album marked ends
\* with nothing dispatched and its buffer and registration removed.
C18_AlbumDispatchedOncePerTTL ==
    /\ \A t, u \in Dispatching :
          (t < u /\ flush[t].key = flush[u].key)
              => flush[u].marked - flush[t].marked > group_ttl
    /\ \A t \in Suppressed :
          /\ flush[t].kids = <<>>
          /\ flush[t].progress = NoProgress
          /\ ~flush[t].entered

\* a late part of an album re-entered the aggregator after the album had
\* gone on to dispatch, and its flush fired within the TTL and was
\* suppressed
C18_Witness ==
    \E t \in Dispatching : \E u \in Suppressed :
        /\ t < u
        /\ flush[u].gid = flush[t].gid
        /\ now - flush[t].marked <= group_ttl
        /\ flush[t].pc = "done"
        /\ flush[t].entered

\* the flush tasks that hold the order token: past the gate and not ended
Entered == {t \in DOMAIN flush : flush[t].entered /\ ~Ended(flush[t])}

\* C21: at most one flush is past the gate at a time; a flush has
\* destination tasks only while it is past the gate and its order token is
\* the next-to-run counter, so every send_media_group call is made then and
\* the counter moves only when every destination task has returned or been
\* cancelled.
C21_OneAlbumDispatchesAtATime ==
    /\ Cardinality(Entered) <= 1
    /\ \A t \in DOMAIN flush :
          flush[t].kids # <<>> =>
              /\ t \in Entered
              /\ flush[t].my_seq = group_next_seq
    /\ \A t \in Entered : flush[t].my_seq = group_next_seq

\* one album has a send_media_group call in flight while the flush of
\* another album, whose order token is a later one, waits at the gate
C21_Witness ==
    \E t, u \in DOMAIN flush :
        /\ t \in Entered
        /\ \E i \in DOMAIN flush[t].kids : flush[t].kids[i].pc = "call1"
        /\ flush[u].pc = "gate"
        /\ flush[u].gid # flush[t].gid
        /\ flush[u].my_seq > group_next_seq

\* the flush tasks of fl that went past the gate and have ended
Released(fl) == {t \in DOMAIN fl : fl[t].entered /\ Ended(fl[t])}

\* C22: the next-to-run counter is the number of flush tasks that went past
\* the gate and have ended, one step for each of them and none for any
\* other; it never decreases and never exceeds the number of order tokens
\* handed out.
C22_CounterAdvancesOncePerEnteredFlush ==
    [][ /\ group_next_seq' >= group_next_seq
        /\ group_next_seq' = Cardinality(Released(flush'))
        /\ group_next_seq' <= group_seq_counter' ]_vars

\* one album was dispatched and its flush released the token, while the
\* flush of a second album, cancelled at the gate by a late part, ended
\* without having had it
C22_Witness ==
    \E t, u \in DOMAIN flush :
        /\ t \in Released(flush)
        /\ flush[u].pc = "done"
        /\ ~flush[u].entered
        /\ flush[u].key # ""
        /\ flush[u].gid # flush[t].gid
        /\ group_next_seq = 1
        /\ group_seq_counter = 2

\* C25: an entry of the dedup cache is created or changed only by the step
\* in which a platform send, of a single message or of an album, to the
\* entry's destination returns, and then it carries the time of that
\* return; no step of a task that is skipped, fails or is cancelled creates
\* or changes an entry.
C25_CacheHoldsOnlySuccessfulSends ==
    [][\A k \in DOMAIN sent_cache' :
          \/ k \in DOMAIN sent_cache /\ sent_cache'[k] = sent_cache[k]
          \/ /\ sent_cache'[k] = now
             /\ \/ /\ r_phase = "gather"
                   /\ \E i \in DOMAIN CurTasks :
                         /\ CurTasks[i].pc = "call"
                         /\ k = <<CurTasks[i].cid, oplog[Cur].src_key>>
                         /\ oplog'[Cur].tasks[i].pc = "done"
                         /\ oplog'[Cur].tasks[i].status = "True"
                \/ \E t \in DOMAIN flush : \E i \in DOMAIN flush[t].kids :
                      /\ flush[t].kids[i].pc \in {"call1", "call2"}
                      /\ ~flush[t].kids[i].cancel
                      /\ k = <<flush[t].kids[i].cid, flush[t].key>>
                      /\ flush'[t].kids[i].pc = "done"
                      /\ flush'[t].kids[i].status = "True"
      ]_vars

\* after the clock has moved, an album was sent to its first destination,
\* which has an entry with the time of the send, and failed for the second,
\* which has none
C25_Witness ==
    \E t \in DOMAIN flush :
        /\ flush[t].pc = "gather"
        /\ DOMAIN flush[t].kids = {1, 2}
        /\ flush[t].kids[1].sent > 0
        /\ <<flush[t].kids[1].cid, flush[t].key>> \in DOMAIN sent_cache
        /\ sent_cache[<<flush[t].kids[1].cid, flush[t].key>>] = flush[t].kids[1].sent
        /\ flush[t].kids[2].pc = "done"
        /\ flush[t].kids[2].status = "False"
        /\ flush[t].kids[2].cid \notin {"None", flush[t].kids[1].cid}
        /\ <<flush[t].kids[2].cid, flush[t].key>> \notin DOMAIN sent_cache

\* the album source keys of the model
AlbumKeys == {SrcGroupKey(p) : p \in AlbumParts}

\* C28: whenever an album source key is marked as processed, a flush of
\* that album has gone past the gate to its dispatch, or one eventually
\* does.
C28_MarkedAlbumIsDispatched ==
    \A K \in AlbumKeys :
        (K \in DOMAIN processed_groups)
            ~> (\E t \in DOMAIN flush : flush[t].key = K /\ flush[t].entered)

----------------------------------------------------------------------------
(* One single message and one album part, relayed at the same time: the
   flush task of the album runs while the single message is handled *)

MixedRegistries ==
    { <<Entry("-1001", "-1001"), Entry("None", "@b")>> }

InitMixed ==
    /\ InitShared
    /\ registry \in MixedRegistries
    /\ SendIdle
    /\ RelayIdle
    /\ AlbumIdle
    /\ DedupIdle

\* the first album part the bot is given
BufferFirstPart(p) ==
    /\ arrived = <<>>
    /\ BufferMediaGroup(p)

NextMixed ==
    \/ \E u \in Units : HandleFirstForward(u)
    \/ InitProgressReturns
    \/ InitProgressRaises
    \/ \E i \in 1..2 : SendToOneStart(i)
    \/ \E i \in 1..2 : ResolveReturns(i)
    \/ \E i \in 1..2 : ResolveRaises(i)
    \/ \E i \in 1..2 : CallReturns(i)
    \/ \E i \in 1..2, r \in Failures : CallRaises(i, r)
    \/ \E i \in 1..2 : BackoffReturns(i)
    \/ GatherReturns
    \/ FinalizeReturns
    \/ FinalizeRaises
    \/ \E p \in {1, 4} : BufferFirstPart(p)
    \/ FlushStart(1)
    \/ FlushDebounceReturns(1)
    \/ AlbumProgressReturns(1)
    \/ AlbumProgressRaises(1)
    \/ \E i \in 1..2 : SendAlbumToOneStart(1, i)
    \/ \E i \in 1..2 : AlbumResolveReturns(1, i)
    \/ \E i \in 1..2 : AlbumResolveRaises(1, i)
    \/ \E i \in 1..2 : MediaGroupReturns(1, i)
    \/ \E i \in 1..2, r \in AlbumFailures : MediaGroupRaises(1, i, r)
    \/ \E i \in 1..2 : AlbumSleepReturns(1, i)
    \/ AlbumGatherReturns(1)
    \/ AlbumFinalizeReturns(1)
    \/ AlbumFinalizeRaises(1)

SpecMixed == InitMixed /\ [][NextMixed]_vars

----------------------------------------------------------------------------
(* Claims about progress sessions, checked under SpecMixed *)

\* C15: when the session of an operation has been superseded by a later
\* session of the chat at the time its fan-out ends, the operation does not
\* go on to edit_text and no message changes in that step; and a message
\* changes only by the edit of the operation that posted it.
C15_StaleFinalizeIsNoOp ==
    [][/\ ( /\ r_phase = "gather"
            /\ r_phase' # "gather"
            /\ oplog[Cur].progress.token # progress_tokens[AdminChat] )
          => r_phase' = "idle" /\ messages' = messages
       /\ \A t \in DOMAIN flush :
             ( /\ flush[t].pc = "gather"
               /\ flush'[t].pc # "gather"
               /\ ~flush[t].cancel
               /\ flush[t].progress.token # progress_tokens[AdminChat] )
             => flush'[t].pc = "done" /\ messages' = messages
       /\ \A m \in DOMAIN messages :
             messages'[m] # messages[m] =>
                \/ r_phase = "finalize" /\ oplog[Cur].progress.message = m
                \/ \E t \in DOMAIN flush :
                      /\ flush[t].pc = "finalize"
                      /\ flush[t].progress.message = m
      ]_vars

\* the single message opened its session first, the album's flush opened
\* the second session before the single message's fan-out ended, the single
\* message's finalize found its session stale, and both messages still show
\* what their own sessions wrote: the first the pending lines
C15_Witness ==
    /\ Len(oplog) = 1
    /\ r_phase = "idle"
    /\ \A i \in DOMAIN oplog[1].tasks : oplog[1].tasks[i].pc = "done"
    /\ oplog[1].progress.message = 1
    /\ oplog[1].progress.lines = InitLines(registry)
    /\ Len(messages) = 2
    /\ messages[1] = InitLines(registry)
    /\ progress_tokens[AdminChat] = 2
    /\ \E t \in DOMAIN flush : flush[t].pc = "done" /\ flush[t].entered
    /\ \A l \in DOMAIN messages[2] : messages[2][l].mark = "ok"

\* C26: the step that ends a finalize, whether the edit returned or raised,
\* leaves the dedup cache alone and moves the album counter only by the
\* flush's own release of its token; and the step that ends the posting of
\* the progress message, whether it returned or raised, is followed by the
\* destination tasks.
C26_ProgressFailuresAreHarmless ==
    [][ /\ (r_phase = "finalize" /\ r_phase' = "idle")
           => /\ sent_cache' = sent_cache
              /\ group_next_seq' = group_next_seq
        /\ \A t \in DOMAIN flush :
              (flush[t].pc = "finalize" /\ flush'[t].pc = "done")
              => /\ sent_cache' = sent_cache
                 /\ group_next_seq' = group_next_seq + 1
        /\ (r_phase = "init" /\ r_phase' # "init") => r_phase' = "gather"
        /\ \A t \in DOMAIN flush :
              (flush[t].pc = "init" /\ ~flush[t].cancel /\ flush'[t].pc # "init")
              => flush'[t].pc = "gather"
      ]_vars

----------------------------------------------------------------------------
(* One single message and one album, relayed at the same time to more
   destinations than the semaphore admits, on a platform that answers every
   call with success *)

\* the number of destinations
NDest == 9

CapRegistry == [i \in 1..NDest |-> Entry(ToString(-1000 - i), ToString(-1000 - i))]

InitCap ==
    /\ InitShared
    /\ registry = CapRegistry
    /\ SendIdle
    /\ RelayIdle
    /\ AlbumIdle
    /\ DedupIdle

NextCap ==
    \/ \E u \in {x \in Units : x.forward_from_chat # 0} :
          HandleFirstForward(u)
    \/ InitProgressReturns
    \/ \E i \in 1..NDest : SendToOneStart(i)
    \/ \E i \in 1..NDest : CallReturns(i)
    \/ GatherReturns
    \/ FinalizeReturns
    \/ BufferFirstPart(4)
    \/ FlushStart(1)
    \/ FlushDebounceReturns(1)
    \/ AlbumProgressReturns(1)
    \/ \E i \in 1..NDest : SendAlbumToOneStart(1, i)
    \/ \E i \in 1..NDest : MediaGroupReturns(1, i)
    \/ AlbumGatherReturns(1)
    \/ AlbumFinalizeReturns(1)

SpecCap == InitCap /\ [][NextCap]_vars

\* C16: the destination tasks of one operation that are inside its
\* semaphore are never more than 8, for the single message and for the
\* album, each counted by itself.
C16_SemaphoreCapsEachOperation ==
    /\ \A p \in DOMAIN oplog : InFlight(oplog[p].tasks) <= max_concurrency
    /\ \A t \in DOMAIN flush : KidsInFlight(flush[t].kids) <= max_concurrency

\* the single message and the album have 8 tasks each inside their
\* semaphores, 16 together, and each has a ninth task waiting
C16_Witness ==
    /\ oplog # <<>>
    /\ flush # <<>>
    /\ InFlight(oplog[1].tasks) = max_concurrency
    /\ KidsInFlight(flush[1].kids) = max_concurrency
    /\ oplog[1].tasks[NDest].pc = "new"
    /\ flush[1].kids[NDest].pc = "new"

----------------------------------------------------------------------------
(* channel_utils.py: normalize_channel_token and dedup_channels.  A string
   is the sequence of its characters. *)

\* the longest list of tokens given to dedup_channels
MaxLen == 3

\* Python's None
None == <<"None">>

Digits == {"0", "1", "2", "3", "4", "5", "6", "7", "8", "9"}
UpperCase ==
    <<"A", "B", "C", "D", "E", "F", "G", "H", "I", "J", "K", "L", "M",
      "N", "O", "P", "Q", "R", "S", "T", "U", "V", "W", "X", "Y", "Z">>
LowerCase ==
    <<"a", "b", "c", "d", "e", "f", "g", "h", "i", "j", "k", "l", "m",
      "n", "o", "p", "q", "r", "s", "t", "u", "v", "w", "x", "y", "z">>

\* the characters of [A-Za-z0-9_]
WordChars ==
    Digits \cup {UpperCase[k] : k \in DOMAIN UpperCase}
           \cup {LowerCase[k] : k \in DOMAIN LowerCase} \cup {"_"}

MinOf(S) == CHOOSE x \in S : \A y \in S : x <= y

\* str.strip()
Strip(s) ==
    LET ns == {i \in DOMAIN s : s[i] # " "}
    IN  IF ns = {} THEN <<>> ELSE SubSeq(s, MinOf(ns), MaxOf(ns))

\* str.startswith(prefix)
StartsWith(s, prefix) ==
    Len(s) >= Len(prefix) /\ SubSeq(s, 1, Len(prefix)) = prefix

\* s[n:]
Drop(s, n) == SubSeq(s, n + 1, Len(s))

\* str.isdigit()
IsDigit(s) == s # <<>> /\ \A i \in DOMAIN s : s[i] \in Digits

\* str.lower()
Lower(s) ==
    [i \in DOMAIN s |->
        IF \E k \in DOMAIN UpperCase : UpperCase[k] = s[i]
        THEN LowerCase[CHOOSE k \in DOMAIN UpperCase : UpperCase[k] = s[i]]
        ELSE s[i]]

\* what a greedy character class C+ takes from the front of s
TakeWhile(s, C) ==
    LET bad == {i \in DOMAIN s : s[i] \notin C}
    IN  IF bad = {} THEN s ELSE SubSeq(s, 1, MinOf(bad) - 1)

Http == <<"h", "t", "t", "p">>
TMe == <<":", "/", "/", "t", ".", "m", "e", "/">>
Minus100 == <<"-", "1", "0", "0">>

\* re.match of "https?://t\.me/" at the front of s: what follows it, or None
UrlRest(s) ==
    IF StartsWith(s, Http \o <<"s">> \o TMe) THEN Drop(s, Len(Http) + 1 + Len(TMe))
    ELSE IF StartsWith(s, Http \o TMe) THEN Drop(s, Len(Http) + Len(TMe))
    ELSE None

\* group 1 of re.match(r"https?://t\.me/c/(\d+)(?:/\d+)?", s), or None
MatchPrivateLink(s) ==
    LET rest == UrlRest(s)
    IN  IF rest # None /\ StartsWith(rest, <<"c", "/">>)
           /\ TakeWhile(Drop(rest, 2), Digits) # <<>>
        THEN TakeWhile(Drop(rest, 2), Digits)
        ELSE None

\* group 1 of re.match(r"https?://t\.me/([A-Za-z0-9_]+)(?:/\d+)?", s), or None
MatchPublicLink(s) ==
    LET rest == UrlRest(s)
    IN  IF rest # None /\ TakeWhile(rest, WordChars) # <<>>
        THEN TakeWhile(rest, WordChars)
        ELSE None

NormalizeChannelToken(token) ==
    IF token = None \/ token = <<>> THEN None
    ELSE LET s == Strip(token)
         IN  IF s = <<>> THEN None
             ELSE IF MatchPrivateLink(s) # None
             THEN Minus100 \o MatchPrivateLink(s)
             ELSE IF MatchPublicLink(s) # None
             THEN <<"@">> \o MatchPublicLink(s)
             ELSE IF s[1] = "@" THEN <<"@">> \o Strip(Drop(s, 1))
             ELSE IF s[1] = "-" /\ IsDigit(Drop(s, 1)) THEN s
             ELSE IF IsDigit(s)
             THEN IF StartsWith(s, Minus100) THEN s ELSE Minus100 \o s
             ELSE None

\* dedup_channels' key: "norm.lower() if norm.startswith('@') else norm"
DedupKeyExact(norm) == norm
DedupKey(norm) == IF StartsWith(norm, <<"@">>) THEN Lower(norm) ELSE norm

\* the loop of dedup_channels over what is left of channels
RECURSIVE DedupLoop(_, _, _)
DedupLoop(channels, seen, result) ==
    IF channels = <<>> THEN result
    ELSE LET ch == Head(channels)
             n == NormalizeChannelToken(ch)
             norm == IF n = None \/ n = <<>> THEN ch ELSE n
             key == DedupKey(norm)
         IN  IF key \in seen
             THEN DedupLoop(Tail(channels), seen, result)
             ELSE DedupLoop(Tail(channels), seen \cup {key}, Append(result, norm))

DedupChannels(channels) == DedupLoop(channels, {}, <<>>)

\* the tokens of the model: "@Ab", "@ab", " @ aB ", "12", "-10012", "ab",
\* "Ab", "https://t.me/c/12/3" and "http://t.me/Ab/5"
DedupTokens ==
    { <<"@", "A", "b">>,
      <<"@", "a", "b">>,
      <<" ", "@", " ", "a", "B", " ">>,
      <<"1", "2">>,
      <<"-", "1", "0", "0", "1", "2">>,
      <<"a", "b">>,
      <<"A", "b">>,
      Http \o <<"s">> \o TMe \o <<"c", "/", "1", "2", "/", "3">>,
      Http \o TMe \o <<"A", "b", "/", "5">> }

DedupInputs == UNION {[1..n -> DedupTokens] : n \in 0..MaxLen}

notDedup ==
    <<clockVars, registry, sent_cache, sendVars, relayVars, albumVars, progVars>>

\* dedup_channels is called with a list of tokens
DedupChannelsCall ==
    /\ dd_pc = "new"
    /\ dd_pc' = "once"
    /\ dd_result' = <<DedupChannels(dd_channels)>>
    /\ UNCHANGED dd_channels
    /\ UNCHANGED notDedup

\* dedup_channels is called with the list it returned
DedupChannelsAgain ==
    /\ dd_pc = "once"
    /\ dd_pc' = "twice"
    /\ dd_result' = Append(dd_result, DedupChannels(dd_result[1]))
    /\ UNCHANGED dd_channels
    /\ UNCHANGED notDedup

InitDedup ==
    /\ InitShared
    /\ registry = <<>>
    /\ SendIdle
    /\ RelayIdle
    /\ AlbumIdle
    /\ dd_pc = "new"
    /\ dd_channels \in DedupInputs
    /\ dd_result = <<>>

NextDedup ==
    \/ DedupChannelsCall
    \/ DedupChannelsAgain

SpecDedup == InitDedup /\ [][NextDedup]_vars

----------------------------------------------------------------------------
(* Claims about dedup_channels, checked under SpecDedup *)

\* a token in normalized form, or as it is when it has none
NormOf(ch) ==
    IF NormalizeChannelToken(ch) = None THEN ch ELSE NormalizeChannelToken(ch)

\* two entries that count as the same channel: @usernames that differ in
\* case only, or equal strings
SameChannel(a, b) ==
    IF StartsWith(a, <<"@">>) /\ StartsWith(b, <<"@">>)
    THEN Lower(a) = Lower(b)
    ELSE a = b

\* the positions of channels whose entry no earlier position has
FirstOccurrences(channels) ==
    {i \in DOMAIN channels :
        \A j \in 1..(i - 1) : ~SameChannel(NormOf(channels[j]), NormOf(channels[i]))}

\* C20: what dedup_channels returns has no two entries that are the same
\* channel (@usernames compared without case, the others exactly), is the
\* normalized first occurrences of its input in the input's order, and is
\* returned unchanged when dedup_channels is applied to it.
C20_DedupKeepsFirstOccurrences ==
    /\ dd_pc \in {"once", "twice"} =>
          LET out == dd_result[1]
              first == FirstOccurrences(dd_channels)
              nth(k) == CHOOSE i \in first :
                            Cardinality({j \in first : j < i}) = k - 1
          IN  /\ \A i, j \in DOMAIN out :
                    i < j => ~SameChannel(out[i], out[j])
              /\ Len(out) = Cardinality(first)
              /\ \A k \in DOMAIN out : out[k] = NormOf(dd_channels[nth(k)])
    /\ dd_pc = "twice" => dd_result[2] = dd_result[1]

\* dedup_channels was given three tokens in which an @username comes twice
\* in different case, returned two entries, the first of them the first
\* token as it was, and was applied to what it returned
C20_Witness ==
    /\ dd_pc = "twice"
    /\ Len(dd_channels) = MaxLen
    /\ Len(dd_result[1]) = 2
    /\ \E i, j \in DOMAIN dd_channels :
          /\ i < j
          /\ dd_channels[i] # dd_channels[j]
          /\ StartsWith(dd_channels[i], <<"@">>)
          /\ StartsWith(dd_channels[j], <<"@">>)
          /\ Lower(dd_channels[i]) = Lower(dd_channels[j])
    /\ dd_result[1][1] = dd_channels[1]

----------------------------------------------------------------------------
(* One single message relayed while albums arrive, on a platform that
   answers every album call with success: a late part can leave an album
   waiting at the ordering gate *)

\* the registry: one destination
GateRegistry == <<Entry("-1001", "-1001")>>

InitGate ==
    /\ InitShared
    /\ registry = GateRegistry
    /\ SendIdle
    /\ RelayIdle
    /\ AlbumIdle
    /\ DedupIdle

NextGate ==
    \/ \E u \in Units : HandleFirstForward(u)
    \/ InitProgressReturns
    \/ SendToOneStart(1)
    \/ CallReturns(1)
    \/ \E r \in Failures : CallRaises(1, r)
    \/ BackoffReturns(1)
    \/ GatherReturns
    \/ FinalizeReturns
    \/ \E p \in {1, 2, 4} : BufferMediaGroup(p)
    \/ \E t \in 1..MaxArrivals : FlushStart(t)
    \/ \E t \in 1..MaxArrivals : FlushCancelled(t)
    \/ \E t \in 1..MaxArrivals : FlushDebounceReturns(t)
    \/ \E t \in 1..MaxArrivals : FlushGateOpens(t)
    \/ \E t \in 1..MaxArrivals : AlbumProgressReturns(t)
    \/ \E t \in 1..MaxArrivals : SendAlbumToOneStart(t, 1)
    \/ \E t \in 1..MaxArrivals : MediaGroupReturns(t, 1)
    \/ \E t \in 1..MaxArrivals : SendAlbumCancelled(t, 1)
    \/ \E t \in 1..MaxArrivals : AlbumGatherReturns(t)
    \/ \E t \in 1..MaxArrivals : AlbumFinalizeReturns(t)

SpecGate == InitGate /\ [][NextGate]_vars

\* a flush that polls the gate and does not find its turn
Gated == {t \in DOMAIN flush : flush[t].pc = "gate"
                               /\ flush[t].my_seq # group_next_seq}

\* C29: a step of a single-message relay leaves group_order,
\* group_seq_counter, group_next_seq and processed_groups as they are, and
\* the platform call of a destination task can return whenever nothing is
\* ready to run before it, whether or not a flush waits at the gate.
C29_RelayIndependentOfAlbumGate ==
    [][ /\ (r_phase' # r_phase \/ oplog' # oplog)
           => UNCHANGED <<group_order, group_seq_counter, group_next_seq,
                          processed_groups>>
        /\ \A i \in 1..2 :
              ( /\ r_phase = "gather"
                /\ i \in DOMAIN CurTasks
                /\ CurTasks[i].pc = "call"
                /\ ~Runnable
                /\ ~ReadyWork )
              => ENABLED CallReturns(i)
      ]_vars

\* an album waits at the gate, its turn not come, while the platform call
\* of the single message, made after two failed calls, is in flight
C29_Witness ==
    /\ Gated # {}
    /\ r_phase = "gather"
    /\ CurTasks[1].pc = "call"
    /\ CurTasks[1].calls = 3

=============================================================================
